---- MODULE Spec2Model ----
(***************************************************************************)
(* Model of scripts/extract_frames_from_videos.py: main() lists the videos *)
(* under an S3 prefix and, for each one, consults the cache file, downloads*)
(* the video, samples its frames, uploads each sampled frame, removes the  *)
(* local files and appends the download path to the cache file.            *)
(*                                                                         *)
(* Strings are sequences of one-character strings, so that basename,       *)
(* f-string formatting, readlines() and list membership are computed the   *)
(* way Python computes them.                                               *)
(***************************************************************************)
EXTENDS Integers, Sequences, FiniteSets, TLC

VARIABLES
    bucket,         \* the S3 bucket: object key -> object
    tmp_files,      \* paths of the files that exist under /tmp (cache file apart)
    cache_exists,   \* os.path.exists("/tmp/extract_frames_from_videos_cache.txt")
    cache_text,     \* the content of the cache file
    pc,             \* position of the process inside main(), "idle" between runs
    sampling_rate,  \* main's argument
    video_keys,     \* main's local: the listing
    idx,            \* number of listing entries the for loop has taken
    cap_opened,     \* cap.isOpened()
    i,              \* main's local: frames decoded so far
    frame_index,    \* main's local: frames emitted so far
    runs,           \* number of runs of main() started
    run_status,     \* "none", "running", "ok" (main returned), "failed" (raised or killed)
    io,             \* kinds of I/O the current run has performed
    downloads,      \* video keys the current run called download_file for
    upload_log,     \* the uploads of the current video's pass, in order: key and decoded ordinal
    abandoned,      \* <<video key, reason>> of every processing the current run gave up
    appended,       \* video keys whose cache line the current run appended
    marked,         \* video names whose cache line was ever appended, by any run
    skipped,        \* video keys the current run's cache check reported complete
    killed,         \* some run of the behaviour was killed
    completed_before, \* video keys that an earlier run processed completely
    prev_snap       \* keys under the output prefix when the previous run returned

vars == <<bucket, tmp_files, cache_exists, cache_text, pc, sampling_rate, video_keys,
          idx, cap_opened, i, frame_index, runs, run_status, io, downloads,
          upload_log, abandoned, appended, marked, skipped, killed,
          completed_before, prev_snap>>

---------------------------------------------------------------------------
\* Bounds of the model.
MaxFrames == 3      \* a video has 0 .. MaxFrames decodable frames
MaxRate == 2        \* sampling rates are MinRate .. MaxRate
MaxRuns == 2        \* runs of main() in one behaviour

MinRate == 0 - 1

---------------------------------------------------------------------------
\* Strings.

\* ord(c) for the characters that occur in keys and paths.
Code(c) ==
    CASE c = "\n" -> 10 [] c = "." -> 46 [] c = "/" -> 47
      [] c = "0" -> 48 [] c = "1" -> 49 [] c = "2" -> 50 [] c = "3" -> 51
      [] c = "4" -> 52 [] c = "5" -> 53 [] c = "6" -> 54 [] c = "7" -> 55
      [] c = "8" -> 56 [] c = "9" -> 57 [] c = "_" -> 95
      [] c = "a" -> 97 [] c = "b" -> 98 [] c = "c" -> 99 [] c = "e" -> 101
      [] c = "f" -> 102 [] c = "g" -> 103 [] c = "i" -> 105 [] c = "j" -> 106
      [] c = "m" -> 109 [] c = "o" -> 111 [] c = "p" -> 112 [] c = "r" -> 114
      [] c = "s" -> 115 [] c = "t" -> 116 [] c = "x" -> 120

\* s < t in the byte order S3 lists keys in.
RECURSIVE StrLess(_, _)
StrLess(s, t) ==
    IF t = <<>> THEN FALSE
    ELSE IF s = <<>> THEN TRUE
    ELSE IF Head(s) = Head(t) THEN StrLess(Tail(s), Tail(t))
    ELSE Code(Head(s)) < Code(Head(t))

\* s.startswith(p)
StartsWith(s, p) == Len(p) <= Len(s) /\ SubSeq(s, 1, Len(p)) = p

\* Position of the last "/" of s, 0 when there is none.
LastSlash(s) ==
    LET at == {k \in 1..Len(s) : s[k] = "/"}
    IN  IF at = {} THEN 0 ELSE CHOOSE k \in at : \A j \in at : j <= k

\* os.path.basename(vk)
Basename(s) == SubSeq(s, LastSlash(s) + 1, Len(s))

Digit(n) ==
    CASE n = 0 -> "0" [] n = 1 -> "1" [] n = 2 -> "2" [] n = 3 -> "3" [] n = 4 -> "4"
      [] n = 5 -> "5" [] n = 6 -> "6" [] n = 7 -> "7" [] n = 8 -> "8" [] n = 9 -> "9"

\* str(n) of a natural number, as an f-string formats it.
RECURSIVE IntToStr(_)
IntToStr(n) == IF n < 10 THEN <<Digit(n)>> ELSE IntToStr(n \div 10) \o <<Digit(n % 10)>>

\* f.readlines(): the lines of a text, each with its terminator.
RECURSIVE ReadLinesFrom(_, _)
ReadLinesFrom(text, line) ==
    IF text = <<>> THEN (IF line = <<>> THEN <<>> ELSE <<line>>)
    ELSE IF Head(text) = "\n" THEN <<line \o <<"\n">>>> \o ReadLinesFrom(Tail(text), <<>>)
    ELSE ReadLinesFrom(Tail(text), line \o <<Head(text)>>)

ReadLines(text) == ReadLinesFrom(text, <<>>)

\* x in list
InList(x, list) == \E k \in 1..Len(list) : list[k] = x

---------------------------------------------------------------------------
\* Names, paths and keys of main().

TmpDir == <<"/", "t", "m", "p", "/">>

\* download_path = f"/tmp/{video_name}"
DownloadPath(video_name) == TmpDir \o video_name

\* Frame names numbered from 1 instead of 0.
FrameNameFromOne(video_name, n) ==
    video_name \o <<"_", "f", "r", "a", "m", "e", "_">> \o IntToStr(n + 1)
               \o <<".", "j", "p", "g">>

\* frame_name = f"{video_name}_frame_{frame_index}.jpg"
FrameName(video_name, n) ==
    video_name \o <<"_", "f", "r", "a", "m", "e", "_">> \o IntToStr(n)
               \o <<".", "j", "p", "g">>

\* frame_path = f"/tmp/{frame_name}"
FramePath(frame_name) == TmpDir \o frame_name

\* upload_key = f"{output_prefix}/{frame_name}"
UploadKey(output_prefix, frame_name) == output_prefix \o <<"/">> \o frame_name

\* i % sampling_rate for i >= 0 and sampling_rate # 0: Python's remainder has
\* the sign of the divisor.
PyMod(n, d) ==
    IF d > 0 THEN n % d
    ELSE LET r == n % (0 - d) IN IF r = 0 THEN 0 ELSE r + d

\* A sampling test that ignores the rate: every decoded frame is emitted.
EmitsEveryFrame(n, rate) == n >= 0

\* The sampling test taken one frame late: (i + 1) % sampling_rate == 0.
EmitsOffByOne(n, rate) == PyMod(n + 1, rate) = 0

\* if i % sampling_rate == 0
Emits(n, rate) == PyMod(n, rate) = 0

\* download_path in completed_download_paths, after f.readlines()
InCache(download_path, text) == InList(download_path, ReadLines(text))

\* The keys of a set in the order S3 lists them.
RECURSIVE SortKeys(_)
SortKeys(S) ==
    IF S = {} THEN <<>>
    ELSE LET least == CHOOSE k \in S : \A j \in S \ {k} : StrLess(k, j)
         IN  <<least>> \o SortKeys(S \ {least})

\* A listing that forgets Prefix=prefix: every key of the bucket.
GetVideoKeysNoPrefix(objects, prefix) == SortKeys(DOMAIN objects)

\* get_video_keys: the keys of the objects list_objects returns for the prefix.
GetVideoKeys(objects, prefix) ==
    SortKeys({k \in DOMAIN objects : StartsWith(k, prefix)})

---------------------------------------------------------------------------
\* The command line and the bucket.

\* --input_prefix and --output_prefix
input_prefix == <<"i">>
output_prefix == <<"o">>

K_a == <<"i", "/", "a">>
K_ax == <<"i", "/", "a", "x">>
K_xa == <<"i", "/", "x", "a">>
K_nl == <<"i", "/", "a", "\n">>
K_sub == <<"i", "/", "s", "/", "a">>

\* The sets of videos under the input prefix that a behaviour starts from.
Listings ==
    { {}, {K_a}, {K_nl}, {K_a, K_nl}, {K_a, K_sub}, {K_a, K_ax, K_xa} }

Rates == MinRate..MaxRate

VideoObject(d) == [kind |-> "video", frames |-> d, src |-> <<>>, ord |-> 0]
FrameObject(vk, n) == [kind |-> "frame", frames |-> 1, src |-> vk, ord |-> n]

\* The bucket holding the videos of S: the p-th listed video has d \div p
\* decodable frames.
BucketOf(S, d) ==
    LET keys == SortKeys(S)
    IN  [k \in S |->
            LET p == CHOOSE q \in 1..Len(keys) : keys[q] = k
            IN  VideoObject(d \div p)]

\* s3_client.upload_file / put of an object
Put(objects, key, obj) ==
    [k \in DOMAIN objects \cup {key} |-> IF k = key THEN obj ELSE objects[k]]

\* Keys of the objects under a prefix.
KeysUnder(objects, prefix) == {k \in DOMAIN objects : StartsWith(k, prefix)}

NoSnap == [valid |-> FALSE, keys |-> {}]

\* The locals of the current iteration of the for loop.
vk == video_keys[idx]
video_name == Basename(vk)
download_path == DownloadPath(video_name)
frame_name == FrameName(video_name, frame_index)
frame_path == FramePath(frame_name)
upload_key == UploadKey(output_prefix, frame_name)

InVideo == pc \in {"download", "open", "read", "imwrite", "upload", "rmframe",
                   "release", "append"}

Init ==
    /\ \E S \in Listings : \E d \in 0..MaxFrames : bucket = BucketOf(S, d)
    /\ sampling_rate \in Rates
    /\ tmp_files = {}
    /\ cache_exists = FALSE
    /\ cache_text = <<>>
    /\ pc = "idle"
    /\ video_keys = <<>>
    /\ idx = 0
    /\ cap_opened = FALSE
    /\ i = 0
    /\ frame_index = 0
    /\ runs = 0
    /\ run_status = "none"
    /\ io = {}
    /\ downloads = {}
    /\ upload_log = <<>>
    /\ abandoned = {}
    /\ appended = {}
    /\ marked = {}
    /\ skipped = {}
    /\ killed = FALSE
    /\ completed_before = {}
    /\ prev_snap = NoSnap

---------------------------------------------------------------------------
\* A cache check whose hit does not `continue`.
AfterCheckNoContinue(hit) == "download"

\* if download_path in completed_download_paths: continue (lines 54-55)
AfterCheck(hit) == IF hit THEN "loop" ELSE "download"

\* An os.remove that removes nothing.
RemovedNothing(files, path) == files

\* os.remove(path)
Removed(files, path) == files \ {path}

\* A for loop that stops one entry early.
ExhaustedEarly(n, len) == n >= len - 1

\* The for loop has taken every entry of video_keys.
Exhausted(n, len) == n = len

\* A listing step that also loads the cache file.
ListingIoWithCache == {"list", "cache_exists", "cache_read"}

\* The I/O of get_video_keys: one list_objects call.
ListingIo == {"list"}

\* The run ends: main() returned ("ok") or an exception left it ("failed").
\* The locals die with the process; what is on disk and in the bucket stays.
EndRun(status) ==
    /\ pc' = "idle"
    /\ run_status' = status
    /\ idx' = 0
    /\ cap_opened' = FALSE
    /\ i' = 0
    /\ frame_index' = 0
    /\ upload_log' = <<>>

\* Videos the current run processed to the end without a failure.
Completed == {v \in appended : \A a \in abandoned : a[1] # v}

\* A run is failure-free when main() returned and gave up no video.
FailureFree == run_status = "ok" /\ abandoned = {}

\* __main__ calls main(): lines 37-43.
Main ==
    /\ skipped' = {}
    /\ UNCHANGED killed
    /\ pc = "idle"
    /\ runs < MaxRuns
    /\ pc' = "list"
    /\ runs' = runs + 1
    /\ run_status' = "running"
    /\ video_keys' = <<>>
    /\ io' = {}
    /\ downloads' = {}
    /\ abandoned' = {}
    /\ appended' = {}
    /\ completed_before' = completed_before \cup Completed
    /\ prev_snap' = IF FailureFree
                    THEN [valid |-> TRUE,
                          keys |-> KeysUnder(bucket, output_prefix \o <<"/">>)]
                    ELSE NoSnap
    /\ UNCHANGED <<bucket, tmp_files, cache_exists, cache_text, sampling_rate, idx,
                   cap_opened, i, frame_index, upload_log, marked>>

\* video_keys = get_video_keys(s3_client, bucket, input_prefix): line 44.
\* list_objects either answers or raises.
ListVideos ==
    /\ UNCHANGED <<skipped, killed>>
    /\ pc = "list"
    /\ io' = io \cup ListingIo
    /\ \/ /\ video_keys' = GetVideoKeys(bucket, input_prefix)
          /\ pc' = "loop"
          /\ UNCHANGED <<run_status, idx, cap_opened, i, frame_index, upload_log>>
       \/ /\ EndRun("failed")
          /\ UNCHANGED video_keys
    /\ UNCHANGED <<bucket, tmp_files, cache_exists, cache_text, sampling_rate, runs,
                   downloads, abandoned, appended, marked, completed_before, prev_snap>>

\* for vk in video_keys, and the cache check of the iteration: lines 45-55.
NextVideo ==
    /\ pc = "loop"
    /\ idx < Len(video_keys)
    /\ idx' = idx + 1
    /\ upload_log' = <<>>
    /\ io' = io \cup {"cache_exists"} \cup (IF cache_exists THEN {"cache_read"} ELSE {})
    /\ pc' = AfterCheck(cache_exists
                         /\ InCache(DownloadPath(Basename(video_keys[idx + 1])), cache_text))
    /\ skipped' = IF cache_exists
                     /\ InCache(DownloadPath(Basename(video_keys[idx + 1])), cache_text)
                  THEN skipped \cup {video_keys[idx + 1]}
                  ELSE skipped
    /\ UNCHANGED killed
    /\ UNCHANGED <<bucket, tmp_files, cache_exists, cache_text, sampling_rate,
                   video_keys, cap_opened, i, frame_index, runs, run_status,
                   downloads, abandoned, appended, marked, completed_before, prev_snap>>

\* The for loop is exhausted and main() returns.
Return ==
    /\ UNCHANGED <<skipped, killed>>
    /\ pc = "loop"
    /\ Exhausted(idx, Len(video_keys))
    /\ EndRun("ok")
    /\ UNCHANGED <<bucket, tmp_files, cache_exists, cache_text, sampling_rate,
                   video_keys, runs, io, downloads, abandoned, appended,
                   marked, completed_before, prev_snap>>

\* s3_client.download_file(bucket, vk, download_path): line 57. It either
\* writes the file or raises, and an exception leaves main().
DownloadFile ==
    /\ UNCHANGED <<skipped, killed>>
    /\ pc = "download"
    /\ io' = io \cup {"download"}
    /\ downloads' = downloads \cup {vk}
    /\ \/ /\ tmp_files' = tmp_files \cup {download_path}
          /\ pc' = "open"
          /\ UNCHANGED <<abandoned, run_status, idx, cap_opened, i, frame_index,
                         upload_log>>
       \/ /\ abandoned' = abandoned \cup {<<vk, "download">>}
          /\ EndRun("failed")
          /\ UNCHANGED tmp_files
    /\ UNCHANGED <<bucket, cache_exists, cache_text, sampling_rate, video_keys, runs,
                   appended, marked, completed_before, prev_snap>>

\* cap = cv2.VideoCapture(download_path); i = 0; frame_index = 0: lines 60-62.
\* The capture may fail to open the file; that raises nothing.
OpenVideo ==
    /\ UNCHANGED <<skipped, killed>>
    /\ pc = "open"
    /\ i' = 0
    /\ frame_index' = 0
    /\ pc' = "read"
    /\ io' = io \cup {"open"}
    /\ \/ /\ cap_opened' = TRUE
          /\ UNCHANGED abandoned
       \/ /\ cap_opened' = FALSE
          /\ abandoned' = abandoned \cup {<<vk, "decode">>}
    /\ UNCHANGED <<bucket, tmp_files, cache_exists, cache_text, sampling_rate,
                   video_keys, idx, runs, run_status, downloads, upload_log, appended,
                   marked, completed_before, prev_snap>>

\* while cap.isOpened(): ret, frame = cap.read(); if not ret: break;
\* if i % sampling_rate == 0: ... else i += 1: lines 63-70 and 81.
\* read() gives the next frame, or reports failure: at the end of the video,
\* or earlier when the decoder fails.
ReadFrame ==
    /\ UNCHANGED <<skipped, killed>>
    /\ pc = "read"
    /\ \/ /\ ~cap_opened
          /\ pc' = "release"
          /\ UNCHANGED <<i, abandoned, run_status, idx, cap_opened, frame_index,
                         upload_log>>
       \/ /\ cap_opened
          /\ i = bucket[vk].frames
          /\ pc' = "release"
          /\ UNCHANGED <<i, abandoned, run_status, idx, cap_opened, frame_index,
                         upload_log>>
       \/ /\ cap_opened
          /\ i < bucket[vk].frames
          /\ pc' = "release"
          /\ abandoned' = abandoned \cup {<<vk, "decode">>}
          /\ UNCHANGED <<i, run_status, idx, cap_opened, frame_index, upload_log>>
       \/ /\ cap_opened
          /\ i < bucket[vk].frames
          /\ sampling_rate = 0
          /\ abandoned' = abandoned \cup {<<vk, "zero_division">>}
          /\ EndRun("failed")
       \/ /\ cap_opened
          /\ i < bucket[vk].frames
          /\ sampling_rate # 0
          /\ IF Emits(i, sampling_rate)
             THEN pc' = "imwrite" /\ UNCHANGED i
             ELSE pc' = "read" /\ i' = i + 1
          /\ UNCHANGED <<abandoned, run_status, idx, cap_opened, frame_index,
                         upload_log>>
    /\ UNCHANGED <<bucket, tmp_files, cache_exists, cache_text, sampling_rate,
                   video_keys, runs, io, downloads, appended, marked,
                   completed_before, prev_snap>>

\* cv2.imwrite(frame_path, frame): lines 71-73. imwrite reports a failed write
\* by its return value, which main() does not look at.
Imwrite ==
    /\ UNCHANGED <<skipped, killed>>
    /\ pc = "imwrite"
    /\ pc' = "upload"
    /\ io' = io \cup {"imwrite"}
    /\ \/ tmp_files' = tmp_files \cup {frame_path}
       \/ UNCHANGED tmp_files
    /\ UNCHANGED <<bucket, cache_exists, cache_text, sampling_rate, video_keys, idx,
                   cap_opened, i, frame_index, runs, run_status, downloads,
                   upload_log, abandoned, appended, marked, completed_before, prev_snap>>

\* s3_client.upload_file(frame_path, bucket, upload_key): lines 76-77. It
\* raises when the file is missing or the transfer fails.
UploadFile ==
    /\ UNCHANGED <<skipped, killed>>
    /\ pc = "upload"
    /\ io' = io \cup {"upload"}
    /\ \/ /\ frame_path \in tmp_files
          /\ bucket' = Put(bucket, upload_key, FrameObject(vk, i))
          /\ upload_log' = Append(upload_log, [key |-> upload_key, ord |-> i])
          /\ pc' = "rmframe"
          /\ UNCHANGED <<abandoned, run_status, idx, cap_opened, i, frame_index>>
       \/ /\ abandoned' = abandoned \cup {<<vk, "upload">>}
          /\ EndRun("failed")
          /\ UNCHANGED bucket
    /\ UNCHANGED <<tmp_files, cache_exists, cache_text, sampling_rate, video_keys,
                   runs, downloads, appended, marked, completed_before, prev_snap>>

\* os.remove(frame_path); frame_index += 1; i += 1: lines 78-81.
RemoveFrame ==
    /\ UNCHANGED <<skipped, killed>>
    /\ pc = "rmframe"
    /\ tmp_files' = Removed(tmp_files, frame_path)
    /\ frame_index' = frame_index + 1
    /\ i' = i + 1
    /\ pc' = "read"
    /\ io' = io \cup {"remove"}
    /\ UNCHANGED <<bucket, cache_exists, cache_text, sampling_rate, video_keys, idx,
                   cap_opened, runs, run_status, downloads, upload_log, abandoned,
                   appended, marked, completed_before, prev_snap>>

\* cap.release(); os.remove(download_path): lines 83-84.
Release ==
    /\ UNCHANGED <<skipped, killed>>
    /\ pc = "release"
    /\ cap_opened' = FALSE
    /\ tmp_files' = Removed(tmp_files, download_path)
    /\ pc' = "append"
    /\ io' = io \cup {"remove"}
    /\ UNCHANGED <<bucket, cache_exists, cache_text, sampling_rate, video_keys, idx,
                   i, frame_index, runs, run_status, downloads, upload_log, abandoned,
                   appended, marked, completed_before, prev_snap>>

\* with open(cache, "a") as f: f.write(f"{download_path}\n"): lines 85-86.
\* The write either reaches the file or raises.
AppendCache ==
    /\ UNCHANGED <<skipped, killed>>
    /\ pc = "append"
    /\ io' = io \cup {"cache_write"}
    /\ \/ /\ cache_exists' = TRUE
          /\ cache_text' = cache_text \o download_path \o <<"\n">>
          /\ appended' = appended \cup {vk}
          /\ marked' = marked \cup {video_name}
          /\ pc' = "loop"
          /\ UNCHANGED <<abandoned, run_status, idx, cap_opened, i, frame_index,
                         upload_log>>
       \/ /\ abandoned' = abandoned \cup {<<vk, "cache_write">>}
          /\ EndRun("failed")
          /\ UNCHANGED <<cache_exists, cache_text, appended, marked>>
    /\ UNCHANGED <<bucket, tmp_files, sampling_rate, video_keys, runs, downloads,
                   completed_before, prev_snap>>

\* The process is killed at any point of a run.
Crash ==
    /\ killed' = TRUE
    /\ UNCHANGED skipped
    /\ pc # "idle"
    /\ abandoned' = IF InVideo THEN abandoned \cup {<<vk, "crash">>} ELSE abandoned
    /\ EndRun("failed")
    /\ UNCHANGED <<bucket, tmp_files, cache_exists, cache_text, sampling_rate,
                   video_keys, runs, io, downloads, appended, marked,
                   completed_before, prev_snap>>

Next ==
    \/ Main
    \/ ListVideos
    \/ NextVideo
    \/ Return
    \/ DownloadFile
    \/ OpenVideo
    \/ ReadFrame
    \/ Imwrite
    \/ UploadFile
    \/ RemoveFrame
    \/ Release
    \/ AppendCache
    \/ Crash

Spec == Init /\ [][Next]_vars

---------------------------------------------------------------------------
\* Notions the properties are stated with.

\* The videos under the input prefix.
Videos == {k \in DOMAIN bucket : bucket[k].kind = "video"}

\* The completion check main() makes for a video: lines 51-54.
IsComplete(v) == cache_exists /\ InCache(DownloadPath(Basename(v)), cache_text)

\* The decoded ordinals sampling emits for a video of d frames: 0, N, 2N, ... < d.
Sampled(d, rate) == {o \in 0..(d - 1) : rate # 0 /\ Emits(o, rate)}

CeilDiv(d, n) == (d + n - 1) \div n

\* {output_prefix}/{VideoName}_frame_{n}.jpg
ExpectedKey(name, n) ==
    output_prefix \o <<"/">> \o name \o <<"_", "f", "r", "a", "m", "e", "_">>
                  \o IntToStr(n) \o <<".", "j", "p", "g">>

\* The current run gave up video v for reason r.
Gave(v, r) == <<v, r>> \in abandoned

\* The run is over.
RunOver == pc = "idle" /\ run_status \in {"ok", "failed"}

\* C1. Rerun skip: a video that an earlier run completed (every sampled frame
\* uploaded, cache line appended) is neither downloaded nor uploaded by a
\* later run over the same listing.
C1_RerunSkip ==
    \A v \in completed_before :
        /\ v \notin downloads
        /\ ~(InVideo /\ vk = v /\ upload_log # <<>>)

\* C2. Ledger safety: a video's cache line is appended only as the last step
\* of its processing, and only when every decoded ordinal 0, N, 2N, ... < D
\* of the video has been uploaded in that processing.
C2_LedgerSafety ==
    /\ InVideo => vk \notin appended
    /\ (pc = "loop" /\ idx >= 1 /\ video_keys[idx] \in appended /\ sampling_rate # 0)
         => \A o \in Sampled(bucket[video_keys[idx]].frames, sampling_rate) :
               \E n \in 1..Len(upload_log) : upload_log[n].ord = o

\* C3. Fault isolation: when the download or a frame upload of a listed video
\* failed (and nothing else stopped the run), every later listed video was
\* still taken up; with three videos of which the second failed to download,
\* the first and the third have their cache line and the second has none.
C3_FaultIsolation ==
    (RunOver /\ \A a \in abandoned : a[2] \in {"download", "upload", "decode"})
      => /\ \A p \in 1..Len(video_keys) :
               (Gave(video_keys[p], "download") \/ Gave(video_keys[p], "upload"))
                 => \A q \in (p + 1)..Len(video_keys) :
                       video_keys[q] \in downloads \/ IsComplete(video_keys[q])
         /\ (Len(video_keys) = 3 /\ abandoned = {<<video_keys[2], "download">>})
              => /\ video_keys[1] \in appended
                 /\ video_keys[3] \in appended
                 /\ video_keys[2] \notin appended

\* C4. Cleanup on failure: once a video has been given up because its
\* download, its decoding or an upload failed (the process was not killed
\* in it), neither its scratch video nor any frame image of it is left
\* under /tmp.
C4_CleanupOnFailure ==
    \A a \in abandoned :
        (/\ a[2] \in {"download", "decode", "upload"}
         /\ ~Gave(a[1], "crash")
         /\ (~InVideo \/ vk # a[1]))
          => /\ DownloadPath(Basename(a[1])) \notin tmp_files
             /\ \A n \in 0..MaxFrames :
                   FramePath(FrameName(Basename(a[1]), n)) \notin tmp_files

C6_ExactMatchLedger ==
    \A v \in Videos : IsComplete(v) <=> Basename(v) \in marked

\* C7. Output-set idempotence: when a failure-free run follows a failure-free
\* run, the keys under the output prefix after it are the keys after the
\* run before it.
C7_OutputSetIdempotent ==
    (RunOver /\ FailureFree /\ prev_snap.valid)
      => KeysUnder(bucket, output_prefix \o <<"/">>) = prev_snap.keys

\* A second failure-free run has ended with frames in the output prefix.
C7_Witness ==
    /\ RunOver
    /\ FailureFree
    /\ prev_snap.valid
    /\ runs = 2
    /\ appended # {}
    /\ Cardinality(KeysUnder(bucket, output_prefix \o <<"/">>)) >= 2

\* C8. Sampling-rate validation: a run with a sampling rate <= 0 performs no
\* I/O and does not return normally.
C8_RateValidation ==
    (sampling_rate <= 0 /\ runs >= 1) => (io = {} /\ run_status # "ok")

\* The cache file holds no two equal lines.
C9_NoDuplicateEntry ==
    LET lines == ReadLines(cache_text)
    IN  \A j, k \in 1..Len(lines) : j # k => lines[j] # lines[k]

\* A step keeps the text the cache file held as a prefix of the text it holds.
C9_AppendOnly ==
    /\ Len(cache_text) <= Len(cache_text')
    /\ SubSeq(cache_text', 1, Len(cache_text)) = cache_text

\* C9. Ledger monotonicity: the cache file never holds two entries for the
\* same video, and an entry, once written, is never modified or removed.
C9_LedgerMonotonic == [](C9_NoDuplicateEntry) /\ [][C9_AppendOnly]_vars

\* C10. Decode failure: a video whose capture did not open, or whose read
\* failed before its last frame, gets no cache line in that run.
C10_DecodeFailureAbandons ==
    \A v \in appended : ~Gave(v, "decode")

---------------------------------------------------------------------------
\* The videos list_objects returns for the input prefix.
Listed == {k \in KeysUnder(bucket, input_prefix) : bucket[k].kind = "video"}

\* Position of a video in the listing.
Pos(v) == CHOOSE q \in 1..Len(video_keys) : video_keys[q] = v

\* The step is the iteration of a video the cache check reports complete.
SkipStep == skipped' # skipped /\ skipped' # {}

\* The iteration of a skipped video touches neither the bucket, /tmp nor the
\* cache file, and its only I/O is the cache check.
C11_SkipStepEffectFree ==
    SkipStep
      => /\ bucket' = bucket
         /\ tmp_files' = tmp_files
         /\ cache_exists' = cache_exists
         /\ cache_text' = cache_text
         /\ downloads' = downloads
         /\ appended' = appended
         /\ io' \ io \subseteq {"cache_exists", "cache_read"}
         /\ pc' = "loop"

\* A skipped video is never in process, downloaded, given up or appended,
\* and no download happens before a cache check.
C11_SkippedUntouched ==
    /\ \A v \in skipped :
          /\ v \notin downloads
          /\ v \notin appended
          /\ \A a \in abandoned : a[1] # v
          /\ ~(InVideo /\ vk = v)
    /\ "download" \in io => "cache_exists" \in io

\* C11. Skip is effect-free: the iteration of a video the cache check reports
\* complete performs no download, no video open, no upload, creates no local
\* file and appends nothing; the cache check precedes the download.
C11_SkipEffectFree == [](C11_SkippedUntouched) /\ [][C11_SkipStepEffectFree]_vars

\* A run has returned after skipping a video.
C11_Witness == RunOver /\ run_status = "ok" /\ skipped # {}

\* C12. Frame renumbering and order: for N >= 1 the k-th upload of a video's
\* pass (k = 0, 1, ...) is the frame at decoded ordinal k*N, goes to the key
\* with index k, and is the object the bucket holds under that key.
C12_FrameOrder ==
    sampling_rate >= 1
      => \A k \in 1..Len(upload_log) :
            /\ upload_log[k].ord = (k - 1) * sampling_rate
            /\ upload_log[k].key = ExpectedKey(video_name, k - 1)
            /\ bucket[upload_log[k].key] = FrameObject(vk, (k - 1) * sampling_rate)

\* Two frames were uploaded at rate 2: ordinals 0 and 2 as indices 0 and 1.
C12_Witness ==
    /\ sampling_rate = 2
    /\ Len(upload_log) = 2
    /\ upload_log[2].ord = 2

\* The files that may exist under /tmp at each position of main().
AllowedFiles ==
    CASE pc \in {"open", "read", "imwrite", "release"} -> {download_path}
      [] pc \in {"upload", "rmframe"} -> {download_path, frame_path}
      [] OTHER -> {}

\* C13. Scratch is bounded and sequential: at every point of a run with
\* N >= 1 (of a behaviour in which no process was killed) the only local
\* files are the scratch video of the video in process and the one frame
\* image being uploaded; nothing is left when the next video or the next
\* frame starts.
C13_ScratchBounded ==
    (pc # "idle" /\ ~killed /\ sampling_rate >= 1) => tmp_files \subseteq AllowedFiles

\* C14. Cleanup precedes the ledger append: when the append is attempted the
\* scratch video is gone; a video whose line the current run appended has no
\* scratch file (a file at its path is that of a later video with the same
\* basename), also when the append failed.
C14_CleanupBeforeAppend ==
    /\ pc = "append" => download_path \notin tmp_files
    /\ \A v \in appended :
          DownloadPath(Basename(v)) \in tmp_files
            => \E w \in downloads :
                  /\ w # v
                  /\ Basename(w) = Basename(v)
                  /\ Pos(w) > Pos(v)
    /\ \A a \in abandoned :
          a[2] = "cache_write" => DownloadPath(Basename(a[1])) \notin tmp_files

\* A run has appended one line and failed to append the next.
C14_Witness ==
    /\ appended # {}
    /\ \E a \in abandoned : a[2] = "cache_write"

\* The steps of a run of main().
RunStep ==
    \/ ListVideos
    \/ NextVideo
    \/ Return
    \/ DownloadFile
    \/ OpenVideo
    \/ ReadFrame
    \/ Imwrite
    \/ UploadFile
    \/ RemoveFrame
    \/ Release
    \/ AppendCache

\* A step of a run in which no operation fails: nothing is given up, no
\* exception leaves main(), and imwrite writes its file.
CleanStep ==
    /\ RunStep
    /\ abandoned' = abandoned
    /\ run_status' # "failed"
    /\ pc = "imwrite" => frame_path \in tmp_files'

CleanNext == Main \/ CleanStep

\* Runs without a failing operation; a started run keeps taking steps.
CleanSpec == Init /\ [][CleanNext]_vars /\ WF_vars(CleanStep)

\* The videos the current run has taken up are the first idx of the listing,
\* each taken once.
C15_VisitedInOrder ==
    pc \notin {"idle", "list"}
      => LET taken == downloads \cup skipped
                        \cup (IF pc = "download" THEN {vk} ELSE {})
         IN  /\ taken = {video_keys[k] : k \in 1..idx}
             /\ Cardinality(taken) = idx
             /\ downloads \cap skipped = {}

\* The run has returned and every listed video was skipped or has its line.
C15_AllDone ==
    /\ RunOver
    /\ run_status = "ok"
    /\ \A v \in Listed : v \in skipped \/ v \in appended
    /\ skipped \cap appended = {}

\* C15. Termination and coverage: with N >= 1 and no failing operation a
\* run visits the listed videos once each in listing order and terminates
\* with every listed video skipped or holding a ledger entry.
C15_TerminationCoverage ==
    /\ [](C15_VisitedInOrder)
    /\ ((pc = "list" /\ sampling_rate >= 1) ~> C15_AllDone)

\* A run over three videos has returned with three lines appended.
C15_Witness ==
    /\ C15_AllDone
    /\ sampling_rate >= 1
    /\ Cardinality(appended) = 3

\* C16. Empty listing is a no-op: when nothing is under the input prefix, a
\* run lists and returns: no download, no upload, no local file, no cache
\* read or write.
C16_EmptyListingNoop ==
    (Listed = {} /\ runs >= 1)
      => /\ io \subseteq {"list"}
         /\ downloads = {}
         /\ appended = {}
         /\ tmp_files = {}
         /\ ~cache_exists
         /\ DOMAIN bucket = {}
         /\ pc \in {"idle", "list", "loop"}
         /\ pc = "loop" => idx = Len(video_keys)
         /\ run_status = "failed" => (killed \/ video_keys = <<>>)

\* A second run over an empty listing has returned.
C16_Witness ==
    /\ Listed = {}
    /\ RunOver
    /\ run_status = "ok"
    /\ io = {"list"}
    /\ runs = 2

\* C17. Distinct videos do not collide: two distinct videos processed by a
\* run have different ledger identities and upload to disjoint sets of keys.
C17_NoCollision ==
    \A v, w \in appended :
        v # w
          => /\ DownloadPath(Basename(v)) # DownloadPath(Basename(w))
             /\ \A n, m \in 0..MaxFrames :
                   UploadKey(output_prefix, FrameName(Basename(v), n))
                     # UploadKey(output_prefix, FrameName(Basename(w), m))

\* C18. Frame-loop invariant: for N >= 1, at the top of every iteration of
\* the frame loop frame_index = ceil(i / N), which is the number of frames
\* the pass has uploaded.
C18_FrameLoopInvariant ==
    (pc = "read" /\ sampling_rate >= 1)
      => /\ frame_index = CeilDiv(i, sampling_rate)
         /\ frame_index = Len(upload_log)

\* The loop is at its fourth iteration at rate 2, two frames emitted.
C18_Witness ==
    /\ pc = "read"
    /\ sampling_rate = 2
    /\ i = 3
    /\ frame_index = 2

====
